---- MODULE Spec2Model ----
(***************************************************************************)
(* Creative Studio (virtual try-on / image edit / video): the generation   *)
(* orchestration core of src/App.tsx, src/services/geminiService.ts and    *)
(* src/components/ResultDisplay.tsx as a state machine.                    *)
(*                                                                         *)
(*   SpecComb   the pure function generateOutfitCombinations applied to    *)
(*              every selection within the bounds                          *)
(*   Spec       the image workflows: photos, selection, try-on and edit    *)
(*              jobs, with the UI handlers interleaved at every await      *)
(*   SpecVideo  the video workflow: credential gate, generation, polling   *)
(*              and download                                               *)
(*   SpecAll    the three modes together                                   *)
(*   SpecParse  the pure function parseGeminiError applied to every        *)
(*              thrown value within the bounds                             *)
(*   SpecClassify  the classification queue: handleStyleUpload runs, with  *)
(*              reset, gender change and the clock interleaved             *)
(***************************************************************************)
EXTENDS Integers, Sequences, FiniteSets, TLC

\* ------------------------------------------------------------------ bounds
\* longest per-category selection enumerated for generateOutfitCombinations
MaxLen == 2

\* ------------------------------------------------------------- data model
\* the six categories, in the key order of initialSelected (App.tsx:85)
Categories == <<"outfits", "tops", "bottoms", "footwear", "headwear", "accessories">>

CategorySet == {Categories[i] : i \in 1..Len(Categories)}

\* a FilterItem: its id and the base64 payload of its image ("" = no data)
FilterItem(i, b) == [id |-> i, base64 |-> b]

initialSelected == [c \in CategorySet |-> <<>>]

\* ------------------------------------------- generateOutfitCombinations
toTryOnItem(item, category) == [id |-> item.id, base64 |-> item.base64, category |-> category]

\* items.map(item => toTryOnItem(item, category))
TagAll(items, category) == [i \in 1..Len(items) |-> toTryOnItem(items[i], category)]

\* val.map(e => [...d, e])
MapAppend(d, val) == [i \in 1..Len(val) |-> Append(d, val[i])]

\* acc.flatMap(d => val.map(e => [...d, e]))
RECURSIVE flatMap(_, _)
flatMap(acc, val) ==
    IF acc = <<>> THEN <<>>
    ELSE MapAppend(Head(acc), val) \o flatMap(Tail(acc), val)

\* nonEmptyArrays.reduce((acc, val) => ..., [[]])
RECURSIVE reduce(_, _)
reduce(arrays, acc) ==
    IF arrays = <<>> THEN acc
    ELSE reduce(Tail(arrays), flatMap(acc, Head(arrays)))

\* variant: an empty array is not skipped, it empties the product
cartesianNoSkip(arrays) == reduce(arrays, << <<>> >>)

\* variant: the loops are nested the other way round, so the last array varies slowest
RECURSIVE flatMapOuter(_, _)
flatMapOuter(acc, val) ==
    IF val = <<>> THEN <<>>
    ELSE [i \in 1..Len(acc) |-> Append(acc[i], Head(val))] \o flatMapOuter(acc, Tail(val))

RECURSIVE reduceOuter(_, _)
reduceOuter(arrays, acc) ==
    IF arrays = <<>> THEN acc
    ELSE reduceOuter(Tail(arrays), flatMapOuter(acc, Head(arrays)))

cartesianLastMajor(arrays) ==
    LET nonEmptyArrays == SelectSeq(arrays, LAMBDA arr : Len(arr) > 0)
    IN  IF Len(nonEmptyArrays) = 0 THEN << <<>> >>
        ELSE reduceOuter(nonEmptyArrays, << <<>> >>)

cartesian(arrays) ==
    LET nonEmptyArrays == SelectSeq(arrays, LAMBDA arr : Len(arr) > 0)
    IN  IF Len(nonEmptyArrays) = 0 THEN << <<>> >>
        ELSE reduce(nonEmptyArrays, << <<>> >>)

\* variant: tops x bottoms is built even when an outfit is selected
baseItemsIgnoringOutfits(selectedItems) ==
    cartesian(<<TagAll(selectedItems["tops"], "tops"),
                TagAll(selectedItems["bottoms"], "bottoms")>>)

\* variant: without an outfit every top and every bottom is a base candidate of its own
baseItemsOnePerGarment(selectedItems) ==
    IF Len(selectedItems["outfits"]) > 0
    THEN [i \in 1..Len(selectedItems["outfits"]) |->
             <<toTryOnItem(selectedItems["outfits"][i], "outfits")>>]
    ELSE [i \in 1..Len(selectedItems["tops"]) |->
             <<toTryOnItem(selectedItems["tops"][i], "tops")>>]
         \o [i \in 1..Len(selectedItems["bottoms"]) |->
             <<toTryOnItem(selectedItems["bottoms"][i], "bottoms")>>]

\* baseItems as left by lines 26-33
baseItems(selectedItems) ==
    IF Len(selectedItems["outfits"]) > 0
    THEN [i \in 1..Len(selectedItems["outfits"]) |->
            <<toTryOnItem(selectedItems["outfits"][i], "outfits")>>]
    ELSE cartesian(<<TagAll(selectedItems["tops"], "tops"),
                     TagAll(selectedItems["bottoms"], "bottoms")>>)

\* variant: the accessory categories are crossed in the order accessories, headwear, footwear
accessoryCombosReordered(selectedItems) ==
    cartesian(<<TagAll(selectedItems["accessories"], "accessories"),
                TagAll(selectedItems["headwear"], "headwear"),
                TagAll(selectedItems["footwear"], "footwear")>>)

\* accessoryCombos of lines 34-37
accessoryCombos(selectedItems) ==
    cartesian(<<TagAll(selectedItems["footwear"], "footwear"),
                TagAll(selectedItems["headwear"], "headwear"),
                TagAll(selectedItems["accessories"], "accessories")>>)

\* baseItems.forEach(base => accessoryCombos.forEach(combo => outfits.push([...base, ...combo])))
CrossConcat(bases, combos) ==
    [k \in 1..(Len(bases) * Len(combos)) |->
        bases[((k - 1) \div Len(combos)) + 1] \o combos[((k - 1) % Len(combos)) + 1]]

\* variant: the accessory combination is the outer loop, the base candidate the inner one
generateOutfitCombinationsAccessoryMajor(selectedItems) ==
    LET bases == baseItems(selectedItems)
        combos == accessoryCombos(selectedItems)
    IN  [k \in 1..(Len(bases) * Len(combos)) |->
            bases[((k - 1) % Len(bases)) + 1] \o combos[((k - 1) \div Len(bases)) + 1]]

generateOutfitCombinations(selectedItems) ==
    IF Len(baseItems(selectedItems)) = 0
    THEN SelectSeq(accessoryCombos(selectedItems), LAMBDA combo : Len(combo) > 0)
    ELSE CrossConcat(baseItems(selectedItems), accessoryCombos(selectedItems))


\* ------------------------------------------------------- parseGeminiError
\* A raw message is a sequence of fragments; a fragment is one of the phrases the
\* normalizer looks for, or other text, written in lower case or with capitals.
Phrases == {"api key not valid", "requested entity was not found", "quota", "503",
            "unavailable", "invalid argument", "request was blocked", "other text"}

Fragment(p, u) == [phrase |-> p, upper |-> u]

\* new Error(message) / a thrown value that is not an Error
ErrorOf(message) == [isError |-> TRUE, message |-> message]

NotAnError == [isError |-> FALSE, message |-> <<>>]

\* variant: the message is compared as it was written
toLowerCaseKeepingCase(message) == message

\* String.prototype.toLowerCase
toLowerCase(message) == [i \in 1..Len(message) |-> Fragment(message[i].phrase, FALSE)]

\* String.prototype.includes with a lower-case pattern: case-sensitive
includes(message, pattern) ==
    \E i \in 1..Len(message) : message[i] = Fragment(pattern, FALSE)

MsgConfiguration == "The AI service is not configured correctly. Please contact support."

MsgCredential == "API Key not found or invalid. Please select a valid API key and try again."

MsgQuota == "The AI service is currently experiencing high demand. Please try again in a few minutes."

MsgUnavailable == "The AI styling service is temporarily unavailable. Please try again later."

MsgBlocked == "The request was blocked by the AI. This can happen if an image is unsuitable for processing. Please try a different photo."

MsgUnknown == "An unexpected error occurred with the AI service. Please try again."

NormalizedMessages ==
    {MsgConfiguration, MsgCredential, MsgQuota, MsgUnavailable, MsgBlocked, MsgUnknown}

\* variant: the 503 / unavailable rule is tried before the quota rule
parseGeminiErrorUnavailableFirst(error) ==
    IF error.isError
    THEN LET message == toLowerCase(error.message) IN
         IF includes(message, "api key not valid") THEN MsgConfiguration
         ELSE IF includes(message, "requested entity was not found") THEN MsgCredential
         ELSE IF includes(message, "503") \/ includes(message, "unavailable") THEN MsgUnavailable
         ELSE IF includes(message, "quota") THEN MsgQuota
         ELSE IF includes(message, "invalid argument") \/ includes(message, "request was blocked")
              THEN MsgBlocked
         ELSE MsgUnknown
    ELSE MsgUnknown

parseGeminiError(error) ==
    IF error.isError
    THEN LET message == toLowerCase(error.message) IN
         IF includes(message, "api key not valid") THEN MsgConfiguration
         ELSE IF includes(message, "requested entity was not found") THEN MsgCredential
         ELSE IF includes(message, "quota") THEN MsgQuota
         ELSE IF includes(message, "503") \/ includes(message, "unavailable") THEN MsgUnavailable
         ELSE IF includes(message, "invalid argument") \/ includes(message, "request was blocked")
              THEN MsgBlocked
         ELSE MsgUnknown
    ELSE MsgUnknown

\* ------------------------------------------------- the generation service
\* What ai.models.generateContent can do: reject with a raw error, or resolve with a
\* response whose first inlineData part (if any) carries `data`: "img" decodable
\* base64, "bad" text that atob rejects, "" an empty or missing payload.
Rejected(e) == [kind |-> "rejected", error |-> e, hasInlineData |-> FALSE, data |-> ""]

Resolved(hasPart, d) == [kind |-> "resolved", error |-> NotAnError, hasInlineData |-> hasPart, data |-> d]

\* the outcome of an async function: a returned value or a thrown message
Return(v) == [kind |-> "return", value |-> v, message |-> ""]

Throw(m) == [kind |-> "throw", value |-> "", message |-> m]

\* "The AI model did not return an image. ..." holds none of the phrases
NoImageError == ErrorOf(<<Fragment("other text", TRUE)>>)

\* variant: a rejected call is swallowed and reported as an empty result
virtualTryOnSwallowing(response) ==
    IF response.kind = "rejected" THEN Return("")
    ELSE IF response.hasInlineData THEN Return(response.data)
    ELSE Throw(parseGeminiError(NoImageError))

\* virtualTryOn, given what generateContent did
virtualTryOn(response) ==
    IF response.kind = "rejected" THEN Throw(parseGeminiError(response.error))
    ELSE IF response.hasInlineData THEN Return(response.data)
    ELSE Throw(parseGeminiError(NoImageError))

\* editImage, given what generateContent did
editImage(response) ==
    IF response.kind = "rejected" THEN Throw(parseGeminiError(response.error))
    ELSE IF response.hasInlineData THEN Return(response.data)
    ELSE Throw(parseGeminiError(NoImageError))

\* base64ToBlob: atob throws on text that is not base64
MsgDecode == "Failed to execute 'atob': The string to be decoded is not correctly encoded."

base64ToBlobThrows(base64) == base64 = "bad"

\* ------------------------------------------------------------------ state
VARIABLES
    mode,               \* App.tsx:50
    selectedImage,      \* App.tsx:51
    workspaceItems,     \* App.tsx:52  newest first
    generatedImages,    \* App.tsx:53  the published result buffer
    generatedVideoUrl,  \* App.tsx:54
    isLoading,          \* App.tsx:55
    error,              \* App.tsx:56
    elapsedTime,        \* App.tsx:58
    gender,             \* App.tsx:59
    isApiKeySelected,   \* App.tsx:61
    editPrompt,         \* App.tsx:64
    videoPrompt,        \* App.tsx:65
    selectedItems,      \* App.tsx:86  category -> ordered list of selected FilterItems
    pc,                 \* where the running handleGenerate is suspended ("idle": none)
    job,                \* what the running handleGenerate captured and its loop position
    results,            \* App.tsx:192 the local results array of the try-on loop
    calls,              \* service calls issued by the latest handleGenerate, in order
    thrown,             \* the service call of the latest handleGenerate that threw: its
                        \* number and the message thrown
    keySelected,        \* window.aistudio: whether a key is selected
    checkKeyPending,    \* App.tsx:75-83 the checkKey effect is awaiting hasSelectedApiKey
    photos,             \* number of photos captured or uploaded so far
    jobs,               \* number of generation jobs started so far
    combPc,             \* SpecComb: "input" before, "done" after generateOutfitCombinations ran
    combResult,         \* SpecComb: what generateOutfitCombinations returned
    parseInput,         \* SpecParse: the value handed to parseGeminiError
    parseResult,        \* SpecParse: what parseGeminiError returned, Null before it ran
    classifyingItems,   \* App.tsx:60  the tasks shown as pending, oldest first
    femaleCatalogue,    \* App.tsx:68
    maleCatalogue,      \* App.tsx:69
    uploads,            \* the handleStyleUpload invocations, each with its position
    now                 \* Date.now()

vars == <<mode, selectedImage, workspaceItems, generatedImages, generatedVideoUrl, isLoading,
          error, elapsedTime, gender, isApiKeySelected, editPrompt, videoPrompt,
          selectedItems, pc, job, results, calls, thrown, keySelected, checkKeyPending,
          photos, jobs, combPc, combResult, parseInput, parseResult, classifyingItems,
          femaleCatalogue, maleCatalogue, uploads, now>>

combVars == <<combPc, combResult, parseInput, parseResult>>

classifyVars == <<classifyingItems, femaleCatalogue, maleCatalogue, uploads, now>>

\* ---------------------------------------------------------------- values
Null == "null"

\* constants.ts:8-24: both catalogues start with the six categories, all empty
FEMALE_CATALOGUE_DATA == [c \in CategorySet |-> <<>>]

MALE_CATALOGUE_DATA == [c \in CategorySet |-> <<>>]

\* an image payload: the base64 data and, for a try-on result, its combination's index
Payload(c, d) == [combo |-> c, data |-> d]

\* an UploadedImage: its name (kind, index, job) and payload; the url is one per name
Image(k, i, j, payload) == [name |-> [kind |-> k, index |-> i, job |-> j], base64 |-> payload]

NoImage == Image(Null, 0, 0, Payload(0, ""))

NoJob == [n |-> 0, mode |-> Null, image |-> NoImage, outfitsToTry |-> <<>>, idx |-> 0, polls |-> 0]

NoThrow == [at |-> 0, message |-> Null]

Reverse(seq) == [i \in 1..Len(seq) |-> seq[Len(seq) + 1 - i]]

\* variant: nothing is trimmed
trimNothing(prompt) == prompt

\* String.prototype.trim on the prompts the model uses: " " is blank
trim(prompt) == IF prompt = " " THEN "" ELSE prompt

Prompts == {"make it vintage", " "}

MsgNoPhoto == "Please select a photo from the workspace first."

MsgNoItem == "Please select at least one clothing item."

MsgPlaceholder == "A selected style is a placeholder. Please upload real clothing items."

MsgNoEditPrompt == "Please enter an edit description."

MsgNoVideoPrompt == "Please enter a video description."

MsgKeySelected == "API Key selected. Please click 'Generate Video' again to proceed."

\* variant: only the first item of each combination is looked at
somePlaceholderFirstOnly(outfitsToTry) ==
    \E k \in 1..Len(outfitsToTry) :
        Len(outfitsToTry[k]) > 0 /\ outfitsToTry[k][1].base64 = ""

\* outfitsToTry.flat().some(item => !item.image.base64)
somePlaceholder(outfitsToTry) ==
    \E k \in 1..Len(outfitsToTry) : \E i \in 1..Len(outfitsToTry[k]) :
        outfitsToTry[k][i].base64 = ""

\* Object.values(selectedItems).flat()
itemsToTryOn(sel) ==
    sel["outfits"] \o sel["tops"] \o sel["bottoms"] \o sel["footwear"] \o sel["headwear"]
        \o sel["accessories"]

isGenerateDisabled ==
    isLoading \/ selectedImage = NoImage \/ (mode = "try-on" /\ Len(itemsToTryOn(selectedItems)) = 0)

\* ------------------------------------------------------------ app bounds
\* photos the user captures or uploads
MaxPhotos == 1

\* generation jobs that get past validation
MaxJobs == 1

\* of them, with the video attempts: an attempt can follow a failed one
MaxVideoJobs == 2

\* combinations of the largest selection the user makes
MaxCombos == 3

\* polls of the video operation that report "not done"
MaxPolls == 2

\* --------------------------------------------------------- inputs of Spec
\* raw errors the SDK rejects with
ServiceErrors ==
    { ErrorOf(<<Fragment("other text", TRUE), Fragment("quota", FALSE)>>),
      ErrorOf(<<Fragment("requested entity was not found", TRUE)>>) }

ImageResponses ==
    {Resolved(TRUE, "img"), Resolved(TRUE, "bad"), Resolved(TRUE, ""), Resolved(FALSE, "")}
        \cup {Rejected(e) : e \in ServiceErrors}

\* the first k item ids of a catalogue category, in ascending / descending id order
Asc(k) == [i \in 1..k |-> FilterItem(i, "img")]

Desc(k) == [i \in 1..k |-> FilterItem(k + 1 - i, "img")]

\* selections the user makes in the catalogue panel
AppSelections ==
    { initialSelected,
      [initialSelected EXCEPT !["outfits"] = Asc(1), !["footwear"] = <<FilterItem(0, "")>>] }
    \cup { [initialSelected EXCEPT !["tops"] = Desc(k), !["bottoms"] = Asc(1)] : k \in {1, MaxCombos} }

\* ------------------------------------------------------------------- Init
Init ==
    /\ mode = "try-on"
    /\ selectedImage = NoImage
    /\ workspaceItems = <<>>
    /\ generatedImages = <<>>
    /\ generatedVideoUrl = Null
    /\ isLoading = FALSE
    /\ error = Null
    /\ elapsedTime = Null
    /\ gender = "female"
    /\ isApiKeySelected = FALSE
    /\ editPrompt = "make it vintage"
    /\ videoPrompt = "make it vintage"
    /\ selectedItems = initialSelected
    /\ pc = "idle"
    /\ job = NoJob
    /\ results = <<>>
    /\ calls = <<>>
    /\ thrown = NoThrow
    /\ keySelected \in BOOLEAN
    /\ checkKeyPending = FALSE
    /\ photos = 0
    /\ jobs = 0
    /\ combPc = "input"
    /\ combResult = <<>>
    /\ parseInput = NotAnError
    /\ parseResult = Null
    /\ classifyingItems = <<>>
    /\ femaleCatalogue = FEMALE_CATALOGUE_DATA
    /\ maleCatalogue = MALE_CATALOGUE_DATA
    /\ uploads = <<>>
    /\ now = 0

\* ------------------------------------------------------------ UI handlers
handleImageAdd ==
    /\ photos < MaxPhotos
    /\ LET image == Image("photo", photos + 1, 0, Payload(0, "img")) IN
       /\ workspaceItems' = <<image>> \o workspaceItems
       /\ selectedImage' = image
    /\ generatedImages' = <<>>
    /\ generatedVideoUrl' = Null
    /\ error' = Null
    /\ photos' = photos + 1
    /\ UNCHANGED <<mode, isLoading, elapsedTime, gender, isApiKeySelected, editPrompt,
                   videoPrompt, selectedItems, pc, job, results, calls, thrown, keySelected,
                   checkKeyPending, jobs, combVars, classifyVars>>

handleSelectImage ==
    /\ \E i \in 1..Len(workspaceItems) :
        /\ workspaceItems[i] # selectedImage
        /\ selectedImage' = workspaceItems[i]
    /\ UNCHANGED <<mode, workspaceItems, generatedImages, generatedVideoUrl, isLoading, error,
                   elapsedTime, gender, isApiKeySelected, editPrompt, videoPrompt,
                   selectedItems, pc, job, results, calls, thrown, keySelected,
                   checkKeyPending, photos, jobs, combVars, classifyVars>>

\* the button is rendered when the workspace is not empty; the user confirms
handleClearWorkspace ==
    /\ Len(workspaceItems) > 0
    /\ workspaceItems' = <<>>
    /\ selectedImage' = NoImage
    /\ UNCHANGED <<mode, generatedImages, generatedVideoUrl, isLoading, error, elapsedTime,
                   gender, isApiKeySelected, editPrompt, videoPrompt, selectedItems, pc, job,
                   results, calls, thrown, keySelected, checkKeyPending, photos, jobs,
                   combVars, classifyVars>>

\* the user confirms
handleReset ==
    /\ workspaceItems' = <<>>
    /\ selectedImage' = NoImage
    /\ generatedImages' = <<>>
    /\ generatedVideoUrl' = Null
    /\ error' = Null
    /\ elapsedTime' = Null
    /\ classifyingItems' = <<>>
    /\ selectedItems' = initialSelected
    /\ femaleCatalogue' = FEMALE_CATALOGUE_DATA
    /\ maleCatalogue' = MALE_CATALOGUE_DATA
    /\ UNCHANGED <<mode, isLoading, gender, isApiKeySelected, editPrompt, videoPrompt, pc,
                   job, results, calls, thrown, keySelected, checkKeyPending, photos, jobs,
                   combVars, uploads, now>>

\* the gender buttons are rendered in try-on mode
handleGenderChange ==
    /\ mode = "try-on"
    /\ \E newGender \in {"female", "male"} :
        /\ gender # newGender
        /\ gender' = newGender
    /\ selectedItems' = initialSelected
    /\ error' = Null
    /\ UNCHANGED <<mode, selectedImage, workspaceItems, generatedImages, generatedVideoUrl,
                   isLoading, elapsedTime, isApiKeySelected, editPrompt, videoPrompt, pc, job,
                   results, calls, thrown, keySelected, checkKeyPending, photos, jobs,
                   combVars, classifyVars>>

\* with the effect of lines 75-83: entering video mode starts checkKey
handleModeChange(newMode) ==
    /\ mode # newMode
    /\ mode' = newMode
    /\ checkKeyPending' = IF newMode = "video" THEN TRUE ELSE checkKeyPending
    /\ generatedImages' = <<>>
    /\ generatedVideoUrl' = Null
    /\ error' = Null
    /\ elapsedTime' = Null
    /\ UNCHANGED <<selectedImage, workspaceItems, isLoading, gender, isApiKeySelected,
                   editPrompt, videoPrompt, selectedItems, pc, job, results, calls, thrown,
                   keySelected, photos, jobs, combVars, classifyVars>>

\* hasSelectedApiKey resolves inside checkKey
checkKey ==
    /\ checkKeyPending
    /\ checkKeyPending' = FALSE
    /\ isApiKeySelected' = keySelected
    /\ UNCHANGED <<mode, selectedImage, workspaceItems, generatedImages, generatedVideoUrl,
                   isLoading, error, elapsedTime, gender, editPrompt, videoPrompt,
                   selectedItems, pc, job, results, calls, thrown, keySelected, photos, jobs,
                   combVars, classifyVars>>

\* the Catalogue panel (rendered in try-on mode) reports a new selection
onSelectedItemsChange ==
    /\ mode = "try-on"
    /\ \E sel \in AppSelections :
        /\ sel # selectedItems
        /\ selectedItems' = sel
    /\ UNCHANGED <<mode, selectedImage, workspaceItems, generatedImages, generatedVideoUrl,
                   isLoading, error, elapsedTime, gender, isApiKeySelected, editPrompt,
                   videoPrompt, pc, job, results, calls, thrown, keySelected, checkKeyPending,
                   photos, jobs, combVars, classifyVars>>

\* the edit textarea (rendered in edit mode)
setEditPrompt ==
    /\ mode = "edit"
    /\ \E p \in Prompts :
        /\ p # editPrompt
        /\ editPrompt' = p
    /\ UNCHANGED <<mode, selectedImage, workspaceItems, generatedImages, generatedVideoUrl,
                   isLoading, error, elapsedTime, gender, isApiKeySelected, videoPrompt,
                   selectedItems, pc, job, results, calls, thrown, keySelected,
                   checkKeyPending, photos, jobs, combVars, classifyVars>>

\* the video textarea (rendered in video mode)
setVideoPrompt ==
    /\ mode = "video"
    /\ \E p \in Prompts :
        /\ p # videoPrompt
        /\ videoPrompt' = p
    /\ UNCHANGED <<mode, selectedImage, workspaceItems, generatedImages, generatedVideoUrl,
                   isLoading, error, elapsedTime, gender, isApiKeySelected, editPrompt,
                   selectedItems, pc, job, results, calls, thrown, keySelected,
                   checkKeyPending, photos, jobs, combVars, classifyVars>>

\* ---------------------------------------------------------- handleGenerate
\* The state handleGenerate and its continuations read and write, as a record: each
\* step below is a function from the current record to the next one.
Cur ==
    [ selectedImage |-> selectedImage, workspaceItems |-> workspaceItems,
      generatedImages |-> generatedImages, generatedVideoUrl |-> generatedVideoUrl,
      isLoading |-> isLoading, error |-> error, elapsedTime |-> elapsedTime,
      isApiKeySelected |-> isApiKeySelected, pc |-> pc, job |-> job, results |-> results,
      calls |-> calls, thrown |-> thrown, keySelected |-> keySelected, jobs |-> jobs ]

Apply(r) ==
    /\ selectedImage' = r.selectedImage
    /\ workspaceItems' = r.workspaceItems
    /\ generatedImages' = r.generatedImages
    /\ generatedVideoUrl' = r.generatedVideoUrl
    /\ isLoading' = r.isLoading
    /\ error' = r.error
    /\ elapsedTime' = r.elapsedTime
    /\ isApiKeySelected' = r.isApiKeySelected
    /\ pc' = r.pc
    /\ job' = r.job
    /\ results' = r.results
    /\ calls' = r.calls
    /\ thrown' = r.thrown
    /\ keySelected' = r.keySelected
    /\ jobs' = r.jobs
    /\ UNCHANGED <<mode, gender, editPrompt, videoPrompt, selectedItems, checkKeyPending,
                   photos, combVars, classifyVars>>

Call(fn, arg) == [fn |-> fn, arg |-> arg]

\* lines 179-184
Begin(r) ==
    [r EXCEPT !.isLoading = TRUE, !.generatedImages = <<>>, !.generatedVideoUrl = Null,
              !.error = Null, !.elapsedTime = Null, !.results = <<>>, !.calls = <<>>,
              !.thrown = NoThrow, !.job = NoJob]

\* variant: the elapsed time is not recorded
FinallyWithoutElapsedTime(r) ==
    [r EXCEPT !.isLoading = FALSE, !.pc = "idle",
              !.job = NoJob, !.results = <<>>, !.calls = <<>>]

\* lines 259-263
Finally(r) ==
    [r EXCEPT !.isLoading = FALSE, !.elapsedTime = "seconds", !.pc = "idle",
              !.job = NoJob, !.results = <<>>, !.calls = <<>>]

\* variant: a failure leaves the loading flag as it is
CatchKeepingLoading(r, message) ==
    [Finally([r EXCEPT !.error = message]) EXCEPT !.isLoading = r.isLoading]

\* lines 257-258, then the finally block
Catch(r, message) == Finally([r EXCEPT !.error = message])

\* a service call threw: it is the call issued last
CatchCall(r, message) ==
    Catch([r EXCEPT !.thrown = [at |-> Len(r.calls), message |-> message]], message)

\* handleGenerate suspends at its first await
Await(r, at, outfitsToTry, firstCalls) ==
    [r EXCEPT !.pc = at, !.calls = firstCalls, !.jobs = @ + 1,
              !.job = [n |-> r.jobs + 1, mode |-> mode, image |-> selectedImage,
                       outfitsToTry |-> outfitsToTry, idx |-> 1, polls |-> 0]]

\* handleGenerate up to its first await (or to its end, when validation fails)
handleGenerateStart ==
    IF selectedImage = NoImage THEN [Cur EXCEPT !.error = MsgNoPhoto]
    ELSE IF mode = "try-on" THEN
        LET outfitsToTry == generateOutfitCombinations(selectedItems) IN
        IF Len(outfitsToTry) = 0 THEN Catch(Begin(Cur), MsgNoItem)
        ELSE IF somePlaceholder(outfitsToTry) THEN Catch(Begin(Cur), MsgPlaceholder)
        ELSE Await(Begin(Cur), "virtualTryOn", outfitsToTry, <<Call("virtualTryOn", 1)>>)
    ELSE IF mode = "edit" THEN
        IF trim(editPrompt) = "" THEN Catch(Begin(Cur), MsgNoEditPrompt)
        ELSE Await(Begin(Cur), "editImage", <<>>, <<Call("editImage", 0)>>)
    ELSE
        IF trim(videoPrompt) = "" THEN Catch(Begin(Cur), MsgNoVideoPrompt)
        ELSE Await(Begin(Cur), "hasSelectedApiKey", <<>>, <<>>)

\* The handler checks the photo and the selection itself; against re-entry it relies on
\* the button, which is disabled while isLoading (line 268).
handleGenerate ==
    /\ pc = "idle"
    /\ LET r == handleGenerateStart IN
       /\ r.pc # "idle" => jobs < (IF mode = "video" THEN MaxVideoJobs ELSE MaxJobs)
       /\ Apply(r)

\* ------------------------------------------------------------ try-on loop
\* variant: a result is pushed whether or not it holds data
pushResultUnchecked(res, result) == Append(res, result)

\* variant: a result is put in front of the earlier ones
pushResultFront(res, result) == IF result.data # "" THEN <<result>> \o res ELSE res

\* lines 195-196
pushResult(res, result) == IF result.data # "" THEN Append(res, result) ELSE res

\* lines 202-213: one workspace item per result, named try-on-<index + 1>
newItems(res, n) == [i \in 1..Len(res) |-> Image("try-on", i, n, res[i])]

\* variant: the new items are put in front without being reversed
prependNewItemsInOrder(items, prev) == items \o prev

\* line 214
prependNewItems(items, prev) == Reverse(items) \o prev

\* lines 201-218; `pick` is the element of newItems that newItems[0] reads at line 216:
\* the first when the updater of line 214 (which reverses newItems in place) has not
\* run yet, the last when it has
materialize(r, pick) ==
    IF Len(r.results) = 0 THEN Finally(r)
    ELSE IF \E i \in 1..Len(r.results) : base64ToBlobThrows(r.results[i].data)
         THEN Catch(r, MsgDecode)
    ELSE LET items == newItems(r.results, r.job.n) IN
         Finally([r EXCEPT !.workspaceItems = prependNewItems(items, @),
                           !.selectedImage = IF pick = "first" THEN items[1]
                                             ELSE items[Len(items)]])

\* variant: a throwing render is skipped and the loop goes on
virtualTryOnContinuationNoFailFast(response, pick) ==
    LET out == virtualTryOn(response)
        res == IF out.kind = "throw" THEN results
               ELSE pushResult(results, Payload(job.idx, out.value))
        r == [Cur EXCEPT !.results = res,
                         !.generatedImages = IF res # results THEN res ELSE @]
    IN  IF job.idx < Len(job.outfitsToTry)
        THEN [r EXCEPT !.job.idx = @ + 1,
                       !.calls = Append(@, Call("virtualTryOn", job.idx + 1))]
        ELSE materialize(r, pick)

\* variant: a render that threw is issued again
virtualTryOnContinuationRetrying(response, pick) ==
    LET out == virtualTryOn(response) IN
    IF out.kind = "throw"
    THEN [Cur EXCEPT !.calls = Append(@, Call("virtualTryOn", job.idx))]
    ELSE LET res == pushResult(results, Payload(job.idx, out.value))
             r == [Cur EXCEPT !.results = res,
                              !.generatedImages = IF res # results THEN res ELSE @]
         IN  IF job.idx < Len(job.outfitsToTry)
             THEN [r EXCEPT !.job.idx = @ + 1,
                            !.calls = Append(@, Call("virtualTryOn", job.idx + 1))]
             ELSE materialize(r, pick)

\* lines 193-199 from the point where `await virtualTryOn(...)` resumes, through the
\* rest of the loop body to the next await or, after the last combination, through
\* lines 201-218 and the finally block
virtualTryOnContinuation(response, pick) ==
    LET out == virtualTryOn(response) IN
    IF out.kind = "throw" THEN CatchCall(Cur, out.message)
    ELSE LET res == pushResult(results, Payload(job.idx, out.value))
             r == [Cur EXCEPT !.results = res,
                              !.generatedImages = IF res # results THEN res ELSE @]
         IN  IF job.idx < Len(job.outfitsToTry)
             THEN [r EXCEPT !.job.idx = @ + 1,
                            !.calls = Append(@, Call("virtualTryOn", job.idx + 1))]
             ELSE materialize(r, pick)

virtualTryOnReturns ==
    /\ pc = "virtualTryOn"
    /\ \E response \in ImageResponses : \E pick \in {"first", "last"} :
        Apply(virtualTryOnContinuation(response, pick))

\* ------------------------------------------------------------------- edit
\* lines 222-236 from the point where `await editImage(...)` resumes
editImageContinuation(response) ==
    LET out == editImage(response) IN
    IF out.kind = "throw" THEN CatchCall(Cur, out.message)
    ELSE IF out.value = "" THEN Finally(Cur)
    ELSE LET result == Payload(0, out.value)
             r == [Cur EXCEPT !.generatedImages = <<result>>]
             newItem == Image("edit", 1, job.n, result)
         IN  IF base64ToBlobThrows(out.value) THEN Catch(r, MsgDecode)
             ELSE Finally([r EXCEPT !.workspaceItems = <<newItem>> \o @,
                                    !.selectedImage = newItem])

editImageReturns ==
    /\ pc = "editImage"
    /\ \E response \in ImageResponses : Apply(editImageContinuation(response))

\* ------------------------------------------------------------------ video
\* What generateVideos / getVideosOperation can do: reject, or resolve with an
\* operation that is done or not and, when done, carries a download uri or not.
OperationRejected(e) == [kind |-> "rejected", error |-> e, done |-> FALSE, hasUri |-> FALSE]

Operation(done, hasUri) == [kind |-> "resolved", error |-> NotAnError, done |-> done, hasUri |-> hasUri]

OperationResponses ==
    {OperationRejected(e) : e \in ServiceErrors}
        \cup {Operation(FALSE, FALSE), Operation(TRUE, FALSE), Operation(TRUE, TRUE)}

\* What fetch can do: reject (network error), or resolve with ok or with a status text
FetchRejected == [kind |-> "rejected", ok |-> FALSE, statusText |-> <<>>]

FetchResolved(ok, statusText) == [kind |-> "resolved", ok |-> ok, statusText |-> statusText]

FetchResponses ==
    { FetchRejected, FetchResolved(TRUE, <<>>),
      FetchResolved(FALSE, <<Fragment("other text", TRUE)>>),
      FetchResolved(FALSE, <<Fragment("other text", TRUE), Fragment("unavailable", TRUE)>>) }

MsgNoLink == "Video generation completed, but no download link was found."

\* the error of that message: it holds none of the phrases
NoLinkError == ErrorOf(<<Fragment("other text", TRUE)>>)

\* "Failed to download video: " + statusText
DownloadError(statusText) == ErrorOf(<<Fragment("other text", TRUE)>> \o statusText)

\* TypeError: Failed to fetch
NetworkError == ErrorOf(<<Fragment("other text", TRUE)>>)

\* variant: no message is taken for a credential failure
includesNothing(message) == FALSE

\* videoError.message.includes("API Key not found"): of the messages generateVideo can
\* throw (the six normalized ones) only MsgCredential holds that text
includesApiKeyNotFound(message) == message = MsgCredential

\* lines 250-255, then 257-263
catchVideoError(r, message) ==
    CatchCall([r EXCEPT !.isApiKeySelected = IF includesApiKeyNotFound(message) THEN FALSE ELSE @],
              message)

\* variant: the generation call is issued whatever the gate reports
hasSelectedApiKeyContinuationNoGate ==
    [Cur EXCEPT !.pc = "generateVideos", !.calls = Append(@, Call("generateVideos", 0))]

\* lines 240-246 from the point where `await hasSelectedApiKey()` resumes
hasSelectedApiKeyContinuation ==
    LET hasKey == keySelected IN
    IF ~hasKey THEN [Cur EXCEPT !.pc = "openSelectKey"]
    ELSE [Cur EXCEPT !.pc = "generateVideos", !.calls = Append(@, Call("generateVideos", 0))]

hasSelectedApiKeyReturns ==
    /\ pc = "hasSelectedApiKey"
    /\ Apply(hasSelectedApiKeyContinuation)

\* lines 242-245 from the point where `await openSelectKey()` resumes; the user has
\* picked a key in the dialog or dismissed it
openSelectKeyContinuation(picked) ==
    Catch([Cur EXCEPT !.keySelected = picked, !.isApiKeySelected = TRUE], MsgKeySelected)

openSelectKeyReturns ==
    /\ pc = "openSelectKey"
    /\ \E picked \in BOOLEAN : Apply(openSelectKeyContinuation(picked))

\* variant: the poller gives up after its first poll
operationContinuationCapped(response) ==
    IF response.kind = "rejected" THEN catchVideoError(Cur, parseGeminiError(response.error))
    ELSE IF ~response.done
         THEN IF job.polls >= 1 THEN catchVideoError(Cur, MsgUnknown)
              ELSE [Cur EXCEPT !.pc = "getVideosOperation", !.job.polls = @ + 1,
                               !.calls = Append(@, Call("getVideosOperation", job.polls + 1))]
    ELSE IF ~response.hasUri THEN catchVideoError(Cur, parseGeminiError(NoLinkError))
    ELSE [Cur EXCEPT !.pc = "fetch", !.calls = Append(@, Call("fetch", 0))]

\* geminiService.ts 206-217 with the latest operation: poll again, fail, or download
operationContinuation(response) ==
    IF response.kind = "rejected" THEN catchVideoError(Cur, parseGeminiError(response.error))
    ELSE IF ~response.done
         THEN [Cur EXCEPT !.pc = "getVideosOperation", !.job.polls = @ + 1,
                          !.calls = Append(@, Call("getVideosOperation", job.polls + 1))]
    ELSE IF ~response.hasUri THEN catchVideoError(Cur, parseGeminiError(NoLinkError))
    ELSE [Cur EXCEPT !.pc = "fetch", !.calls = Append(@, Call("fetch", 0))]

generateVideosReturns ==
    /\ pc = "generateVideos"
    /\ \E response \in OperationResponses :
        /\ (response.kind = "resolved" /\ ~response.done) => job.polls < MaxPolls
        /\ Apply(operationContinuation(response))

getVideosOperationReturns ==
    /\ pc = "getVideosOperation"
    /\ \E response \in OperationResponses :
        /\ (response.kind = "resolved" /\ ~response.done) => job.polls < MaxPolls
        /\ Apply(operationContinuation(response))

\* geminiService.ts 217-221 from the point where `await fetch(...)` resumes
fetchContinuation(response) ==
    IF response.kind = "rejected" THEN catchVideoError(Cur, parseGeminiError(NetworkError))
    ELSE IF ~response.ok
         THEN catchVideoError(Cur, parseGeminiError(DownloadError(response.statusText)))
    ELSE [Cur EXCEPT !.pc = "blob"]

fetchReturns ==
    /\ pc = "fetch"
    /\ \E response \in FetchResponses : Apply(fetchContinuation(response))

\* geminiService.ts 221-224 and App.tsx 249 from the point where `await response.blob()`
\* resumes
blobContinuation(resolved) ==
    IF ~resolved THEN catchVideoError(Cur, parseGeminiError(NetworkError))
    ELSE Finally([Cur EXCEPT !.generatedVideoUrl = "blob:video"])

blobReturns ==
    /\ pc = "blob"
    /\ \E resolved \in BOOLEAN : Apply(blobContinuation(resolved))

\* ---------------------------------------------------------- ResultDisplay
\* which of its five views ResultDisplay renders
ResultDisplay ==
    LET hasImageResults == Len(generatedImages) > 0
        hasVideoResult == generatedVideoUrl # Null
    IN  IF isLoading /\ ~hasImageResults /\ ~hasVideoResult THEN "loading"
        ELSE IF error # Null THEN "error"
        ELSE IF hasVideoResult THEN "video"
        ELSE IF hasImageResults THEN "images"
        ELSE "placeholder"

\* the images the rendered view shows
shownImages == IF ResultDisplay = "images" THEN generatedImages ELSE <<>>

\* ------------------------------------------------------------------- Spec
\* the image workflows: the user moves between try-on and edit mode
Next ==
    \/ handleImageAdd
    \/ handleSelectImage
    \/ handleClearWorkspace
    \/ handleReset
    \/ handleGenderChange
    \/ \E newMode \in {"try-on", "edit"} : handleModeChange(newMode)
    \/ onSelectedItemsChange
    \/ setEditPrompt
    \/ handleGenerate
    \/ virtualTryOnReturns
    \/ editImageReturns

Spec == Init /\ [][Next]_vars

\* the video workflow: the user moves between try-on and video mode
NextVideo ==
    \/ handleImageAdd
    \/ handleSelectImage
    \/ handleClearWorkspace
    \/ handleReset
    \/ \E newMode \in {"try-on", "video"} : handleModeChange(newMode)
    \/ checkKey
    \/ setVideoPrompt
    \/ handleGenerate
    \/ virtualTryOnReturns
    \/ hasSelectedApiKeyReturns
    \/ openSelectKeyReturns
    \/ generateVideosReturns
    \/ getVideosOperationReturns
    \/ fetchReturns
    \/ blobReturns

SpecVideo == Init /\ [][NextVideo]_vars

\* the three modes together
NextAll == Next \/ NextVideo

SpecAll == Init /\ [][NextAll]_vars


\* the service call in flight returns or throws
ServiceReturns ==
    \/ virtualTryOnReturns
    \/ editImageReturns
    \/ hasSelectedApiKeyReturns
    \/ openSelectKeyReturns
    \/ generateVideosReturns
    \/ getVideosOperationReturns
    \/ fetchReturns
    \/ blobReturns

\* the jobs of the three modes with the handlers that touch what a job reads or writes,
\* every awaited call settling in the end
NextLive ==
    \/ handleImageAdd
    \/ handleClearWorkspace
    \/ handleReset
    \/ \E newMode \in {"try-on", "edit", "video"} : handleModeChange(newMode)
    \/ onSelectedItemsChange
    \/ handleGenerate
    \/ ServiceReturns

SpecLive == Init /\ [][NextLive]_vars /\ WF_vars(ServiceReturns)

\* ------------------------------------------------- the classification queue
\* most files in one handleStyleUpload batch, most invocations, last clock value
MaxFiles == 2

MaxUploads == 2

MaxClock == 1

\* a File is its name here
FileNames == {"shirt.png"}

Batches == UNION {[1..n -> FileNames] : n \in 0..MaxFiles}

\* file.name.split('.').slice(0, -1).join('.') || 'Style Item'
itemName(name) == IF name = "shirt.png" THEN "shirt" ELSE "Style Item"

\* `${Date.now()}-${file.name}`
tempIdOf(time, name) == [time |-> time, name |-> name]

\* readFileAsBase64: the reader loads the file or reports an error
MsgReadError == "There was an error reading the file."

ReadOutcomes == {Return("img"), Throw(MsgReadError)}

\* ai.models.generateContent for the classification: a raw error, or a response
\* whose text is not JSON, is JSON without a category, or names a category
Classified(t, c) == [kind |-> "resolved", error |-> NotAnError, text |-> t, category |-> c]

ClassifyRejected(e) == [kind |-> "rejected", error |-> e, text |-> "", category |-> ""]

\* a raw error the SDK rejects with
ClassifyErrors == {ErrorOf(<<Fragment("other text", TRUE), Fragment("quota", FALSE)>>)}

ReturnedCategories == {"tops", "footwear"}

ClassifyResponses ==
    {ClassifyRejected(e) : e \in ClassifyErrors}
        \cup {Classified("text", ""), Classified("json", "")}
        \cup {Classified("json", c) : c \in ReturnedCategories}

\* "Unexpected token ..." (JSON.parse) and "AI could not determine a valid category."
\* hold none of the phrases
SyntaxError == ErrorOf(<<Fragment("other text", TRUE)>>)

NoCategoryError == ErrorOf(<<Fragment("other text", TRUE)>>)

\* classifyClothingItem, given what generateContent did
classifyClothingItem(response) ==
    IF response.kind = "rejected" THEN Throw(parseGeminiError(response.error))
    ELSE IF response.text # "json" THEN Throw(parseGeminiError(SyntaxError))
    ELSE IF response.category = "" THEN Throw(parseGeminiError(NoCategoryError))
    ELSE Return(response.category)

\* prev => [...prev, { id: tempId, name: file.name, url: fileUrl, error: null }]
addTask(prev, tempId, name) == Append(prev, [id |-> tempId, name |-> name, error |-> Null])

\* prev => prev.filter(item => item.id !== tempId)
removeTask(prev, tempId) == SelectSeq(prev, LAMBDA item : item.id # tempId)

\* variant: the failed task is taken out of the list
failTaskDropping(prev, tempId, errorMessage) == SelectSeq(prev, LAMBDA item : item.id # tempId)

\* prev => prev.map(item => item.id === tempId ? { ...item, error: errorMessage } : item)
failTask(prev, tempId, errorMessage) ==
    [k \in 1..Len(prev) |->
        IF prev[k].id = tempId THEN [prev[k] EXCEPT !.error = errorMessage] ELSE prev[k]]

\* prevCatalogue => ({ ...prevCatalogue, [category]: [...(prevCatalogue[category] || []), item] })
addToCatalogue(prevCatalogue, item, category) ==
    IF category \in DOMAIN prevCatalogue
    THEN [prevCatalogue EXCEPT ![category] = Append(@, item)]
    ELSE [c \in DOMAIN prevCatalogue \cup {category} |->
            IF c = category THEN <<item>> ELSE prevCatalogue[c]]

\* variant: the loop goes on without waiting
delayNoWait(time, since) == time

\* await delay(4500): the clock when the loop resumes, given the clock when it resumes
\* and the one the file's tempId was made at
delay(time, since) == IF time > since THEN time ELSE since + 1

\* one handleStyleUpload invocation: its files, the index of the file it is at, where
\* it is suspended, the gender its handleItemAdd closed over, the file's tempId, and
\* the ids and outcomes of the files so far
Upload(files, i, at, g, tempId, ids, outcomes) ==
    [files |-> files, i |-> i, pc |-> at, gender |-> g, tempId |-> tempId,
     ids |-> ids, outcomes |-> outcomes]

NoId == tempIdOf(0, Null)

\* the loop body up to its first await, for file i of the run
startFile(run, i, time) ==
    LET tempId == tempIdOf(time, run.files[i])
    IN  [run EXCEPT !.i = i, !.pc = "readFileAsBase64", !.tempId = tempId,
                    !.ids = Append(@, tempId)]

handleStyleUpload(files) ==
    /\ Len(uploads) < MaxUploads
    /\ now <= MaxClock
    /\ LET run == Upload(files, 0, "done", gender, NoId, <<>>, <<>>)
       IN  IF Len(files) = 0
           THEN /\ uploads' = Append(uploads, run)
                /\ UNCHANGED classifyingItems
           ELSE /\ uploads' = Append(uploads, startFile(run, 1, now))
                /\ classifyingItems' =
                       addTask(classifyingItems, tempIdOf(now, files[1]), files[1])
    /\ UNCHANGED <<mode, selectedImage, workspaceItems, generatedImages, generatedVideoUrl,
                   isLoading, error, elapsedTime, gender, isApiKeySelected, editPrompt,
                   videoPrompt, selectedItems, pc, job, results, calls, thrown, keySelected,
                   checkKeyPending, photos, jobs, combVars, femaleCatalogue, maleCatalogue,
                   now>>

\* variant: a failure ends the loop
catchClassifyAborting(u, errorMessage) ==
    /\ classifyingItems' = failTask(classifyingItems, uploads[u].tempId, errorMessage)
    /\ uploads' = [uploads EXCEPT ![u].pc = "done", ![u].outcomes = Append(@, "Failed")]
    /\ UNCHANGED <<femaleCatalogue, maleCatalogue>>

\* the catch block of lines 109-113, then the run waits in delay
catchClassify(u, errorMessage) ==
    /\ classifyingItems' = failTask(classifyingItems, uploads[u].tempId, errorMessage)
    /\ uploads' = [uploads EXCEPT ![u].pc = "delay", ![u].outcomes = Append(@, "Failed")]
    /\ UNCHANGED <<femaleCatalogue, maleCatalogue>>

readFileAsBase64Returns(u) ==
    /\ uploads[u].pc = "readFileAsBase64"
    /\ \E outcome \in ReadOutcomes :
        IF outcome.kind = "throw"
        THEN catchClassify(u, outcome.message)
        ELSE /\ uploads' = [uploads EXCEPT ![u].pc = "classifyClothingItem"]
             /\ UNCHANGED <<classifyingItems, femaleCatalogue, maleCatalogue>>
    /\ UNCHANGED <<mode, selectedImage, workspaceItems, generatedImages, generatedVideoUrl,
                   isLoading, error, elapsedTime, gender, isApiKeySelected, editPrompt,
                   videoPrompt, selectedItems, pc, job, results, calls, thrown, keySelected,
                   checkKeyPending, photos, jobs, combVars, now>>

\* lines 104-108 after the category arrived
classifyClothingItemReturns(u) ==
    /\ uploads[u].pc = "classifyClothingItem"
    /\ \E response \in ClassifyResponses :
        LET outcome == classifyClothingItem(response)
            run == uploads[u]
            newItem == [id |-> run.tempId, name |-> itemName(run.files[run.i])]
        IN  IF outcome.kind = "throw"
            THEN catchClassify(u, outcome.message)
            ELSE /\ IF run.gender = "female"
                    THEN /\ femaleCatalogue' =
                                addToCatalogue(femaleCatalogue, newItem, outcome.value)
                         /\ UNCHANGED maleCatalogue
                    ELSE /\ maleCatalogue' =
                                addToCatalogue(maleCatalogue, newItem, outcome.value)
                         /\ UNCHANGED femaleCatalogue
                 /\ classifyingItems' = removeTask(classifyingItems, run.tempId)
                 /\ uploads' = [uploads EXCEPT ![u].pc = "delay",
                                               ![u].outcomes = Append(@, "Done")]
    /\ UNCHANGED <<mode, selectedImage, workspaceItems, generatedImages, generatedVideoUrl,
                   isLoading, error, elapsedTime, gender, isApiKeySelected, editPrompt,
                   videoPrompt, selectedItems, pc, job, results, calls, thrown, keySelected,
                   checkKeyPending, photos, jobs, combVars, now>>

\* the timer of line 114 fires: the next file, or the end of the loop
delayReturns(u) ==
    /\ uploads[u].pc = "delay"
    /\ LET run == uploads[u]
           time == delay(now, run.tempId.time)
       IN  /\ now' = time
           /\ IF run.i < Len(run.files)
              THEN /\ uploads' = [uploads EXCEPT ![u] = startFile(run, run.i + 1, time)]
                   /\ classifyingItems' =
                          addTask(classifyingItems, tempIdOf(time, run.files[run.i + 1]),
                                  run.files[run.i + 1])
              ELSE /\ uploads' = [uploads EXCEPT ![u].pc = "done"]
                   /\ UNCHANGED classifyingItems
    /\ UNCHANGED <<mode, selectedImage, workspaceItems, generatedImages, generatedVideoUrl,
                   isLoading, error, elapsedTime, gender, isApiKeySelected, editPrompt,
                   videoPrompt, selectedItems, pc, job, results, calls, thrown, keySelected,
                   checkKeyPending, photos, jobs, combVars, femaleCatalogue, maleCatalogue>>

\* time passes
Tick ==
    /\ now < MaxClock
    /\ now' = now + 1
    /\ UNCHANGED <<mode, selectedImage, workspaceItems, generatedImages, generatedVideoUrl,
                   isLoading, error, elapsedTime, gender, isApiKeySelected, editPrompt,
                   videoPrompt, selectedItems, pc, job, results, calls, thrown, keySelected,
                   checkKeyPending, photos, jobs, combVars, classifyingItems,
                   femaleCatalogue, maleCatalogue, uploads>>

NextClassify ==
    \/ \E files \in Batches : handleStyleUpload(files)
    \/ \E u \in 1..Len(uploads) : readFileAsBase64Returns(u)
    \/ \E u \in 1..Len(uploads) : classifyClothingItemReturns(u)
    \/ \E u \in 1..Len(uploads) : delayReturns(u)
    \/ Tick
    \/ handleGenderChange
    \/ handleReset

SpecClassify == Init /\ [][NextClassify]_vars
\* ------------------------------------------------------------- SpecComb
\* generateOutfitCombinations applied to every selection of at most MaxLen items per
\* category, each in ascending and in descending id order
SelOptions == {Asc(k) : k \in 0..MaxLen} \cup {Desc(k) : k \in 0..MaxLen}

Selections == [CategorySet -> SelOptions]

InitComb ==
    /\ mode = "try-on"
    /\ selectedImage = NoImage
    /\ workspaceItems = <<>>
    /\ generatedImages = <<>>
    /\ generatedVideoUrl = Null
    /\ isLoading = FALSE
    /\ error = Null
    /\ elapsedTime = Null
    /\ gender = "female"
    /\ isApiKeySelected = FALSE
    /\ editPrompt = "make it vintage"
    /\ videoPrompt = "make it vintage"
    /\ selectedItems \in Selections
    /\ pc = "idle"
    /\ job = NoJob
    /\ results = <<>>
    /\ calls = <<>>
    /\ thrown = NoThrow
    /\ keySelected = FALSE
    /\ checkKeyPending = FALSE
    /\ photos = 0
    /\ jobs = 0
    /\ classifyingItems = <<>>
    /\ femaleCatalogue = FEMALE_CATALOGUE_DATA
    /\ maleCatalogue = MALE_CATALOGUE_DATA
    /\ uploads = <<>>
    /\ now = 0
    /\ combPc = "input"
    /\ combResult = <<>>
    /\ parseInput = NotAnError
    /\ parseResult = Null

ApplyCombination ==
    /\ combPc = "input"
    /\ combPc' = "done"
    /\ combResult' = generateOutfitCombinations(selectedItems)
    /\ UNCHANGED <<mode, selectedImage, workspaceItems, generatedImages, generatedVideoUrl,
                   isLoading, error, elapsedTime, gender, isApiKeySelected, editPrompt,
                   videoPrompt, selectedItems, pc, job, results, calls, thrown, keySelected,
                   checkKeyPending, photos, jobs, parseInput, parseResult, classifyVars>>

NextComb == ApplyCombination

SpecComb == InitComb /\ [][NextComb]_vars


\* ------------------------------------------------------------ SpecParse
\* parseGeminiError applied to every thrown value: a value that is not an Error, or
\* an Error whose message is made of at most MaxFragments fragments
MaxFragments == 3

RawMessages == UNION {[1..n -> {Fragment(p, u) : p \in Phrases, u \in BOOLEAN}] : n \in 0..MaxFragments}

RawErrors == {NotAnError} \cup {ErrorOf(message) : message \in RawMessages}

InitParse ==
    /\ mode = "try-on"
    /\ selectedImage = NoImage
    /\ workspaceItems = <<>>
    /\ generatedImages = <<>>
    /\ generatedVideoUrl = Null
    /\ isLoading = FALSE
    /\ error = Null
    /\ elapsedTime = Null
    /\ gender = "female"
    /\ isApiKeySelected = FALSE
    /\ editPrompt = "make it vintage"
    /\ videoPrompt = "make it vintage"
    /\ selectedItems = initialSelected
    /\ pc = "idle"
    /\ job = NoJob
    /\ results = <<>>
    /\ calls = <<>>
    /\ thrown = NoThrow
    /\ keySelected = FALSE
    /\ checkKeyPending = FALSE
    /\ photos = 0
    /\ jobs = 0
    /\ classifyingItems = <<>>
    /\ femaleCatalogue = FEMALE_CATALOGUE_DATA
    /\ maleCatalogue = MALE_CATALOGUE_DATA
    /\ uploads = <<>>
    /\ now = 0
    /\ combPc = "input"
    /\ combResult = <<>>
    /\ parseInput \in RawErrors
    /\ parseResult = Null

ApplyParse ==
    /\ parseResult = Null
    /\ parseResult' = parseGeminiError(parseInput)
    /\ UNCHANGED <<mode, selectedImage, workspaceItems, generatedImages, generatedVideoUrl,
                   isLoading, error, elapsedTime, gender, isApiKeySelected, editPrompt,
                   videoPrompt, selectedItems, pc, job, results, calls, thrown, keySelected,
                   checkKeyPending, photos, jobs, combPc, combResult, parseInput,
                   classifyVars>>

NextParse == ApplyParse

SpecParse == InitParse /\ [][NextParse]_vars
\* ------------------------------------------------ claims on SpecComb
CombDone == combPc = "done"

\* the selected items of category c, tagged with c, in selection order
Tagged(c) ==
    [i \in 1..Len(selectedItems[c]) |->
        [id |-> selectedItems[c][i].id, base64 |-> selectedItems[c][i].base64, category |-> c]]

RECURSIVE ProdLen(_)
ProdLen(lists) == IF lists = <<>> THEN 1 ELSE Len(Head(lists)) * ProdLen(Tail(lists))

\* the n-th tuple (from 0) of the product of non-empty lists, first list slowest
RefTuple(lists, n) ==
    [i \in 1..Len(lists) |->
        lists[i][((n \div ProdLen(SubSeq(lists, i + 1, Len(lists)))) % Len(lists[i])) + 1]]

RefProduct(lists) == [n \in 1..ProdLen(lists) |-> RefTuple(lists, n - 1)]

NonEmptyOnly(lists) == SelectSeq(lists, LAMBDA l : l # <<>>)

\* footwear x headwear x accessories over the non-empty categories only
RefAccessoryProduct ==
    RefProduct(NonEmptyOnly(<<Tagged("footwear"), Tagged("headwear"), Tagged("accessories")>>))

NoAccessorySelected ==
    /\ selectedItems["footwear"] = <<>>
    /\ selectedItems["headwear"] = <<>>
    /\ selectedItems["accessories"] = <<>>

NothingSelected == \A c \in CategorySet : selectedItems[c] = <<>>

BaseCategoryItemIn(result) ==
    \E k \in 1..Len(result) : \E i \in 1..Len(result[k]) :
        result[k][i].category \in {"tops", "bottoms"}

\* bases[i] followed by combos[j], bases outer loop, combos inner loop
IsCrossOf(result, bases, combos) ==
    /\ Len(result) = Len(bases) * Len(combos)
    /\ \A i \in 1..Len(bases) : \A j \in 1..Len(combos) :
            result[(i - 1) * Len(combos) + j] = bases[i] \o combos[j]

Singletons(items) == [i \in 1..Len(items) |-> <<items[i]>>]

\* C1 (as claimed): a selection with all six categories empty yields zero combinations.
C1_AllEmptyYieldsNoCombination ==
    (CombDone /\ NothingSelected) => combResult = <<>>

\* C3 (as claimed): with no outfit and tops or bottoms empty there is no base candidate:
\* no tops/bottoms item is in any combination and the result is the accessory
\* cross-product without the entirely-empty combination. (Stated for a selection that
\* holds some item: the entirely empty selection is the case of C1.)
C3_NoBaseWhenTopsOrBottomsEmpty ==
    (CombDone /\ ~NothingSelected /\ selectedItems["outfits"] = <<>>
       /\ (selectedItems["tops"] = <<>> \/ selectedItems["bottoms"] = <<>>))
    => /\ ~BaseCategoryItemIn(combResult)
       /\ combResult = SelectSeq(RefAccessoryProduct, LAMBDA combo : combo # <<>>)

\* C3 (amended): with no outfit and exactly one of tops and bottoms empty, the non-empty
\* one alone supplies the base candidates, one single-item candidate per item in
\* selection order, each followed by every accessory combination; no item of the empty
\* category appears.
C3_LoneTopsOrBottomsIsTheBase ==
    \A c \in {"tops", "bottoms"} :
        LET other == IF c = "tops" THEN "bottoms" ELSE "tops" IN
        (CombDone /\ selectedItems["outfits"] = <<>>
           /\ selectedItems[c] # <<>> /\ selectedItems[other] = <<>>)
        => /\ IsCrossOf(combResult, Singletons(Tagged(c)), RefAccessoryProduct)
           /\ \A k \in 1..Len(combResult) : \A i \in 1..Len(combResult[k]) :
                  combResult[k][i].category # other

C3_Witness ==
    /\ CombDone
    /\ selectedItems["outfits"] = <<>>
    /\ Len(selectedItems["tops"]) = 2
    /\ selectedItems["bottoms"] = <<>>
    /\ Len(selectedItems["footwear"]) = 2
    /\ Len(combResult) = 4

\* C4: with an outfit selected the base layer is the outfits list in selection order:
\* every combination starts with exactly one outfit item, followed by accessory items
\* only, whatever tops and bottoms hold.
C4_OutfitsAloneAreTheBase ==
    (CombDone /\ selectedItems["outfits"] # <<>>)
    => /\ IsCrossOf(combResult, Singletons(Tagged("outfits")), RefAccessoryProduct)
       /\ ~BaseCategoryItemIn(combResult)
       /\ \A k \in 1..Len(combResult) :
              /\ combResult[k][1].category = "outfits"
              /\ \A i \in 2..Len(combResult[k]) : combResult[k][i].category # "outfits"

C4_Witness ==
    /\ CombDone
    /\ Len(selectedItems["outfits"]) = 2
    /\ selectedItems["outfits"][1].id = 2
    /\ selectedItems["tops"] # <<>>
    /\ selectedItems["bottoms"] # <<>>
    /\ Len(combResult) = 2

\* C5: with no outfit, tops and bottoms both selected and no accessory, the result is
\* tops x bottoms in top-major order, each combination [top, bottom]; tops = [A,B],
\* bottoms = [C] gives exactly [[A,C],[B,C]].
C5_TopsTimesBottomsTopMajor ==
    (CombDone /\ selectedItems["outfits"] = <<>>
       /\ selectedItems["tops"] # <<>> /\ selectedItems["bottoms"] # <<>>
       /\ NoAccessorySelected)
    => /\ Len(combResult) = Len(selectedItems["tops"]) * Len(selectedItems["bottoms"])
       /\ \A i \in 1..Len(selectedItems["tops"]) :
          \A j \in 1..Len(selectedItems["bottoms"]) :
              combResult[(i - 1) * Len(selectedItems["bottoms"]) + j]
                  = <<Tagged("tops")[i], Tagged("bottoms")[j]>>

C5_Witness ==
    /\ CombDone
    /\ selectedItems["outfits"] = <<>>
    /\ Len(selectedItems["tops"]) = 2
    /\ Len(selectedItems["bottoms"]) = 1
    /\ NoAccessorySelected
    /\ combResult = << <<Tagged("tops")[1], Tagged("bottoms")[1]>>,
                       <<Tagged("tops")[2], Tagged("bottoms")[1]>> >>

\* C6: with outfits, tops and bottoms empty and some accessory category selected, the
\* result is exactly the cross-product of the non-empty accessory categories;
\* accessories = [X,Y] alone gives [[X],[Y]].
C6_AccessoriesOnly ==
    (CombDone /\ selectedItems["outfits"] = <<>> /\ selectedItems["tops"] = <<>>
       /\ selectedItems["bottoms"] = <<>> /\ ~NoAccessorySelected)
    => /\ combResult = RefAccessoryProduct
       /\ \A k \in 1..Len(combResult) : combResult[k] # <<>>

C6_Witness ==
    /\ CombDone
    /\ \A c \in CategorySet \ {"accessories"} : selectedItems[c] = <<>>
    /\ Len(selectedItems["accessories"]) = 2
    /\ combResult = << <<Tagged("accessories")[1]>>, <<Tagged("accessories")[2]>> >>

\* C7: when there are base candidates, the result is each base candidate in order
\* (outer loop) followed by each accessory combination in order (inner loop); an empty
\* accessory category is skipped, so there are |base| x (product of the sizes of the
\* non-empty accessory categories) combinations, each holding after its base exactly
\* one item of every non-empty accessory category, in footwear, headwear, accessories
\* order.
C7_BaseTimesAccessories ==
    (CombDone /\ Len(baseItems(selectedItems)) > 0)
    => LET bases == baseItems(selectedItems)
           accCats == SelectSeq(<<"footwear", "headwear", "accessories">>,
                                LAMBDA c : selectedItems[c] # <<>>)
           sizes == [i \in 1..Len(accCats) |-> selectedItems[accCats[i]]]
       IN  /\ IsCrossOf(combResult, bases, RefAccessoryProduct)
           /\ Len(combResult) = Len(bases) * ProdLen(sizes)
           /\ \A k \in 1..Len(combResult) :
                  LET base == bases[((k - 1) \div ProdLen(sizes)) + 1]
                      tail == SubSeq(combResult[k], Len(base) + 1, Len(combResult[k]))
                  IN  /\ Len(tail) = Len(accCats)
                      /\ \A i \in 1..Len(accCats) :
                             /\ tail[i].category = accCats[i]
                             /\ \E m \in 1..Len(selectedItems[accCats[i]]) :
                                    tail[i].id = selectedItems[accCats[i]][m].id

C7_Witness ==
    /\ CombDone
    /\ selectedItems["outfits"] = <<>>
    /\ Len(selectedItems["tops"]) = 2
    /\ Len(selectedItems["bottoms"]) = 2
    /\ Len(selectedItems["footwear"]) = 2
    /\ selectedItems["headwear"] = <<>>
    /\ Len(selectedItems["accessories"]) = 2
    /\ Len(combResult) = 16
    /\ Len(combResult[1]) = 4

\* ------------------------------------------------------- claims about Spec
\* the step is the throw of a virtualTryOn call: `thrown` is empty while a job runs
RenderThrows == pc = "virtualTryOn" /\ thrown' # NoThrow

\* the render calls for combinations 1..k, in order
RenderCalls(k) == [i \in 1..k |-> Call("virtualTryOn", i)]

\* C2: in try-on mode, handleGenerate with a photo selected and nothing selected in any
\* category ends with the error "Please select at least one clothing item." and issues
\* no virtualTryOn call.
C2_NothingSelectedIsRejected ==
    [][(handleGenerate /\ mode = "try-on" /\ selectedImage # NoImage /\ NothingSelected)
        => (error' = MsgNoItem /\ pc' = "idle" /\ calls' = <<>>)]_vars

\* C8: when the k-th virtualTryOn call of a try-on job throws, the result buffer ends
\* with exactly k-1 entries, no call was or will be issued for the combinations after
\* k, and the job ends with the normalized message of that call as its error.
C8_FailFastLeavesKMinusOneResults ==
    [][RenderThrows
        => /\ Len(generatedImages') = job.idx - 1
           /\ calls = RenderCalls(job.idx)
           /\ pc' = "idle" /\ ~isLoading'
           /\ error' = thrown'.message
           /\ error' \in NormalizedMessages]_vars

\* C9: after a try-on job failed at render k > 1, the images accumulated before the
\* failure are shown by the result view while the error is set.
C9_PartialImagesStayVisible ==
    (pc = "idle" /\ thrown.at > 1 /\ error = thrown.message /\ generatedImages # <<>>)
    => shownImages = generatedImages

comboOf(item) == item.base64.combo

\* positions p < q of the workspace that hold entries created by the same try-on job
SameJobEntries(p, q) ==
    /\ p < q
    /\ workspaceItems[p].name.kind = "try-on"
    /\ workspaceItems[q].name.kind = "try-on"
    /\ workspaceItems[p].name.job = workspaceItems[q].name.job

\* C10 (as claimed): the workspace entries a successful try-on job creates are in
\* combination order: the entry for combination i precedes the entry for j when i < j.
C10_NewEntriesInCombinationOrder ==
    \A p, q \in 1..Len(workspaceItems) :
        SameJobEntries(p, q) => comboOf(workspaceItems[p]) < comboOf(workspaceItems[q])

\* C10 (amended): the workspace entries a successful try-on job creates are in reverse
\* combination order: the entry for combination j precedes the entry for i when i < j.
C10_NewEntriesInReverseCombinationOrder ==
    \A p, q \in 1..Len(workspaceItems) :
        SameJobEntries(p, q) => comboOf(workspaceItems[p]) > comboOf(workspaceItems[q])

C10_Witness ==
    /\ pc = "idle" /\ error = Null /\ thrown = NoThrow
    /\ Len(workspaceItems) = MaxCombos + 1
    /\ \A p \in 1..MaxCombos :
           /\ workspaceItems[p].name.kind = "try-on"
           /\ comboOf(workspaceItems[p]) = MaxCombos + 1 - p
    /\ workspaceItems[MaxCombos + 1].name.kind = "photo"

\* the step ends a try-on job (its last await resumes and the handler runs to its end)
RenderLoopEnds == pc = "virtualTryOn" /\ pc' = "idle"

\* the workspace holds a try-on entry made from this image
MaterializedIn(image, items) ==
    \E p \in 1..Len(items) : items[p].name.kind = "try-on" /\ items[p].base64 = image

\* C11: when the render loop of a try-on job ends, every image in the result buffer has
\* been materialized as a workspace entry; stated here for the case the claim includes
\* by name, the loop ended by a throw after one or more successful renders.
C11_EveryResultIsMaterialized ==
    [][(RenderLoopEnds /\ thrown' # NoThrow)
        => \A i \in 1..Len(generatedImages') :
               MaterializedIn(generatedImages'[i], workspaceItems')]_vars

\* the selection {tops: [A], bottoms: [B]}, every other category empty
OneTopOneBottom == [initialSelected EXCEPT !["tops"] = Asc(1), !["bottoms"] = Asc(1)]

\* handleGenerate is about to run in try-on mode with a photo and that selection
StartsWithOneTopOneBottom ==
    pc = "idle" /\ mode = "try-on" /\ selectedImage # NoImage /\ selectedItems = OneTopOneBottom

\* the last render call of a job over that selection is in flight
LastRenderOfOneTopOneBottom ==
    /\ pc = "virtualTryOn"
    /\ job.outfitsToTry = generateOutfitCombinations(OneTopOneBottom)
    /\ job.idx = Len(job.outfitsToTry)

\* handleGenerate's state when that call returns an image
AfterImage(pick) == virtualTryOnContinuation(Resolved(TRUE, "img"), pick)

\* C12 (as claimed): with a photo and the selection {tops: [A], bottoms: [B]}, when every
\* render call succeeds the job performs two sequential render calls and ends with 2
\* images in the result buffer, 2 new workspace entries and no error.
C12_TwoRendersForOneTopOneBottom ==
    /\ StartsWithOneTopOneBottom => Len(handleGenerateStart.job.outfitsToTry) = 2
    /\ LastRenderOfOneTopOneBottom
       => /\ calls = RenderCalls(2)
          /\ \A pick \in {"first", "last"} :
                 /\ AfterImage(pick).pc = "idle"
                 /\ Len(AfterImage(pick).generatedImages) = 2
                 /\ Len(AfterImage(pick).workspaceItems) = Len(workspaceItems) + 2
                 /\ AfterImage(pick).error = Null

\* C12 (amended): with a photo and the selection {tops: [A], bottoms: [B]} the job has the
\* single combination [A, B]: it performs one render call and, when that call returns an
\* image, ends with 1 image in the result buffer, 1 new workspace entry and no error.
C12_OneRenderForOneTopOneBottom ==
    /\ StartsWithOneTopOneBottom
       => /\ Len(handleGenerateStart.job.outfitsToTry) = 1
          /\ handleGenerateStart.calls = RenderCalls(1)
    /\ (pc = "virtualTryOn" /\ job.outfitsToTry = generateOutfitCombinations(OneTopOneBottom))
       => /\ calls = RenderCalls(1)
          /\ \A pick \in {"first", "last"} :
                 /\ AfterImage(pick).pc = "idle"
                 /\ Len(AfterImage(pick).generatedImages) = 1
                 /\ Len(AfterImage(pick).workspaceItems) = Len(workspaceItems) + 1
                 /\ AfterImage(pick).error = Null

C12_Witness ==
    /\ pc = "idle" /\ error = Null /\ jobs = 1
    /\ selectedItems = OneTopOneBottom
    /\ generatedImages = <<Payload(1, "img")>>
    /\ Len(workspaceItems) = 2
    /\ workspaceItems[1].name.kind = "try-on" /\ workspaceItems[1].base64 = Payload(1, "img")
    /\ workspaceItems[2].name.kind = "photo"

\* some item of some combination generated for the current selection has no image data
PlaceholderSelected ==
    LET combos == generateOutfitCombinations(selectedItems) IN
    \E k \in 1..Len(combos) : \E i \in 1..Len(combos[k]) : combos[k][i].base64 = ""

\* C13: in try-on mode, when an item of a generated combination has no image data (a
\* placeholder), handleGenerate ends with the placeholder error before the render loop:
\* no virtualTryOn call, an empty result buffer, no new workspace entry.
C13_PlaceholderAbortsBeforeRendering ==
    (pc = "idle" /\ mode = "try-on" /\ selectedImage # NoImage
       /\ PlaceholderSelected)
    => /\ handleGenerateStart.error = MsgPlaceholder
       /\ handleGenerateStart.pc = "idle"
       /\ ~handleGenerateStart.isLoading
       /\ handleGenerateStart.calls = <<>>
       /\ handleGenerateStart.generatedImages = <<>>
       /\ handleGenerateStart.workspaceItems = workspaceItems

C13_Witness ==
    /\ pc = "idle" /\ mode = "try-on" /\ selectedImage # NoImage
    /\ PlaceholderSelected
    /\ error = MsgPlaceholder
    /\ calls = <<>> /\ generatedImages = <<>> /\ jobs = 0
    /\ Len(workspaceItems) = 1

\* handleGenerate is about to run in edit mode with a photo selected
StartsEdit == pc = "idle" /\ mode = "edit" /\ selectedImage # NoImage

\* handleGenerate's state when the editImage call in flight returns an image
AfterEdit == editImageContinuation(Resolved(TRUE, "img"))

\* C14: in edit mode handleGenerate with a blank prompt makes no editImage call and sets
\* a validation error; with a non-blank prompt it issues exactly one editImage call
\* against the selected image and, when the call returns an image, generatedImages holds
\* exactly one result and exactly one workspace entry is added.
C14_EditIsOneCallOneResultOneEntry ==
    /\ (StartsEdit /\ editPrompt = " ")
       => /\ handleGenerateStart.error = MsgNoEditPrompt
          /\ handleGenerateStart.pc = "idle"
          /\ handleGenerateStart.calls = <<>>
    /\ (StartsEdit /\ editPrompt = "make it vintage")
       => /\ handleGenerateStart.pc = "editImage"
          /\ handleGenerateStart.calls = <<Call("editImage", 0)>>
          /\ handleGenerateStart.job.image = selectedImage
    /\ pc = "editImage"
       => /\ calls = <<Call("editImage", 0)>>
          /\ AfterEdit.pc = "idle"
          /\ AfterEdit.error = Null
          /\ Len(AfterEdit.generatedImages) = 1
          /\ Len(AfterEdit.workspaceItems) = Len(workspaceItems) + 1
          /\ AfterEdit.workspaceItems[1].name.kind = "edit"

C14_Witness ==
    /\ pc = "idle" /\ mode = "edit" /\ error = Null /\ jobs = 1
    /\ generatedImages = <<Payload(0, "img")>>
    /\ Len(workspaceItems) = 2
    /\ workspaceItems[1].name.kind = "edit"
    /\ selectedImage = workspaceItems[1]


\* the combination indices of the images, in the order the images are held
CombosOf(images) == [k \in 1..Len(images) |-> images[k].combo]

Increasing(seq) == \A k \in 2..Len(seq) : seq[k] > seq[k - 1]

\* C27: during a try-on job the job's successful renders are held in combination order,
\* the published buffer is that sequence (or was emptied by the user meanwhile), and the
\* render in flight, when it returns data, republishes the sequence with exactly that
\* one result appended; a render that fails or returns no data publishes nothing.
C27_BufferIsPrefixOfSuccessfulRenders ==
    pc = "virtualTryOn" =>
        /\ Increasing(CombosOf(results))
        /\ \A k \in 1..Len(results) : results[k].combo < job.idx /\ results[k].data # ""
        /\ generatedImages \in {results, <<>>}
        /\ \A response \in ImageResponses : \A pick \in {"first", "last"} :
            LET out == virtualTryOn(response)
                after == virtualTryOnContinuation(response, pick).generatedImages
            IN  IF out.kind = "return" /\ out.value # ""
                THEN after = Append(results, Payload(job.idx, out.value))
                ELSE after = generatedImages

C27_Witness ==
    /\ pc = "virtualTryOn"
    /\ job.idx = 3
    /\ Len(results) = 2
    /\ generatedImages = results

\* C28: in a try-on job the render calls issued so far are those of combinations 1 to
\* idx, each once and in order, the last of them the only one in flight; when it
\* returns, either the job is over or the next combination's call is the one issued,
\* and after a failure nothing is issued again.
C28_OneRenderCallAtATimeInOrder ==
    pc = "virtualTryOn" =>
        /\ job.idx \in 1..Len(job.outfitsToTry)
        /\ calls = [k \in 1..job.idx |-> Call("virtualTryOn", k)]
        /\ \A response \in ImageResponses : \A pick \in {"first", "last"} :
            LET after == virtualTryOnContinuation(response, pick) IN
            \/ after.pc = "idle"
            \/ /\ virtualTryOn(response).kind = "return"
               /\ after.pc = "virtualTryOn"
               /\ after.calls = Append(calls, Call("virtualTryOn", job.idx + 1))

C28_Witness ==
    /\ pc = "virtualTryOn"
    /\ job.idx = 3
    /\ calls = <<Call("virtualTryOn", 1), Call("virtualTryOn", 2), Call("virtualTryOn", 3)>>

\* C32: a try-on job that ends with no error has one result image per combination:
\* every combination rendered so far has its result held, and when the last render
\* returns without a throw the published buffer has as many entries as there are
\* combinations, whatever the render returned.
C32_OneImagePerCombinationWithoutError ==
    pc = "virtualTryOn" =>
        /\ Len(results) = job.idx - 1
        /\ job.idx = Len(job.outfitsToTry) =>
            \A response \in ImageResponses : \A pick \in {"first", "last"} :
                LET after == virtualTryOnContinuation(response, pick) IN
                (after.pc = "idle" /\ after.error = Null)
                    => Len(after.generatedImages) = Len(job.outfitsToTry)

\* a try-on or edit job is in flight and the user has switched to another mode since
JobOfAnotherMode == pc \in {"virtualTryOn", "editImage"} /\ job.mode # mode

Cleared(r) == r.generatedImages = <<>> /\ r.generatedVideoUrl = Null /\ r.error = Null

\* C33: once the user has switched mode during a try-on or edit job, the result buffer,
\* the video URL and the error are empty and stay so: whatever the job's call in flight
\* returns, its completion leaves them empty.
C33_ModeSwitchKeepsResultsCleared ==
    JobOfAnotherMode =>
        /\ Cleared(Cur)
        /\ pc = "virtualTryOn" =>
            \A response \in ImageResponses : \A pick \in {"first", "last"} :
                Cleared(virtualTryOnContinuation(response, pick))
        /\ pc = "editImage" =>
            \A response \in ImageResponses : Cleared(editImageContinuation(response))

\* ============================================== claims about SpecClassify
Runs == 1..Len(uploads)

\* file k of run u is being read or classified
InFlight(u) == uploads[u].pc \in {"readFileAsBase64", "classifyClothingItem"}

\* C22: in one batch the files are taken in submission order, and a file is read or
\* classified only when every file before it has ended as Done or Failed and the clock
\* has moved on since the file before it was taken (the cooldown).
C22_OneBatchIsSequentialWithCooldown ==
    \A u \in Runs :
        LET run == uploads[u] IN
        /\ Len(run.ids) = run.i
        /\ \A k \in 1..run.i : run.ids[k].name = run.files[k]
        /\ Len(run.outcomes) = IF InFlight(u) THEN run.i - 1 ELSE run.i
        /\ \A k \in 1..Len(run.outcomes) : run.outcomes[k] \in {"Done", "Failed"}
        /\ \A k \in 2..run.i : run.ids[k].time > run.ids[k - 1].time

C22_Witness ==
    \E u \in Runs :
        /\ uploads[u].i = 2
        /\ uploads[u].pc = "classifyClothingItem"
        /\ uploads[u].outcomes = <<"Failed">>

\* the classifyClothingItem calls that have been issued and have not returned
ClassifyCallsInFlight == {u \in Runs : uploads[u].pc = "classifyClothingItem"}

\* C23: at every moment at most one classifyClothingItem call is in flight, whatever
\* upload submissions were made, a submission during an earlier batch included.
C23_AtMostOneClassificationInFlight == Cardinality(ClassifyCallsInFlight) <= 1

\* C24: a failure never ends a batch early: whichever files of a batch fail, the loop
\* ends only after each of its N files was taken once, in order, and each ended as
\* Done or Failed; until then the run is at a file or waiting for the next one.
C24_FailureNeverAbortsTheBatch ==
    \A u \in Runs :
        LET run == uploads[u] IN
        /\ run.pc = "done" =>
             /\ Len(run.ids) = Len(run.files)
             /\ Len(run.outcomes) = Len(run.files)
             /\ \A k \in 1..Len(run.files) :
                    run.ids[k].name = run.files[k] /\ run.outcomes[k] \in {"Done", "Failed"}
        /\ (run.pc = "delay" /\ run.outcomes[run.i] = "Failed") =>
             ENABLED delayReturns(u)

C24_Witness ==
    \E u \in Runs :
        /\ uploads[u].pc = "done"
        /\ uploads[u].outcomes = <<"Failed", "Done">>

\* the step in which the file run u is at ends with `outcome`
Settles(u, outcome) ==
    /\ Len(uploads') = Len(uploads)
    /\ uploads'[u].outcomes = Append(uploads[u].outcomes, outcome)

TaskIds(items) == {items[k].id : k \in 1..Len(items)}

\* catalogue `after` is `before` with one item of this id appended to one category
OneItemAppended(before, after, tempId) ==
    /\ DOMAIN before \subseteq DOMAIN after
    /\ \E c \in DOMAIN after :
        /\ Len(after[c]) > 0
        /\ after[c][Len(after[c])].id = tempId
        /\ after[c] = Append(IF c \in DOMAIN before THEN before[c] ELSE <<>>, after[c][Len(after[c])])
        /\ \A d \in DOMAIN after \ {c} : d \in DOMAIN before /\ after[d] = before[d]

ValidationMessages ==
    {MsgNoPhoto, MsgNoItem, MsgPlaceholder, MsgNoEditPrompt, MsgNoVideoPrompt}

\* C26: a validation failure is raised before any service call, and every other
\* failure shown to the user, as the job's error or as a task's error, is one of the six
\* messages of parseGeminiError, failures of reading a file and of decoding a result
\* included.
C26_EverySurfacedFailureIsNormalized ==
    /\ (pc = "idle" /\ handleGenerateStart.error \in ValidationMessages)
         => handleGenerateStart.pc = "idle"
    /\ error \in {Null} \cup ValidationMessages \cup NormalizedMessages
    /\ \A k \in 1..Len(classifyingItems) :
           classifyingItems[k].error \in {Null} \cup NormalizedMessages

\* handleStyleUpload was invoked in this step
BatchAccepted == Len(uploads') = Len(uploads) + 1

\* C29: as soon as handleStyleUpload has accepted a batch of N files, all N files are
\* tasks in classifyingItems (pending, with no error), before any of them is classified.
C29_AllFilesPendingOnSubmission ==
    [][BatchAccepted =>
        LET files == uploads'[Len(uploads')].files IN
        /\ Len(classifyingItems') = Len(classifyingItems) + Len(files)
        /\ \A k \in 1..Len(files) :
            LET task == classifyingItems'[Len(classifyingItems) + k] IN
            task.name = files[k] /\ task.error = Null]_vars

\* both catalogues hold their default contents and no task is shown: the state
\* handleReset leaves (with a batch in flight it is reached by handleReset only)
UploadsCleared ==
    /\ femaleCatalogue = FEMALE_CATALOGUE_DATA
    /\ maleCatalogue = MALE_CATALOGUE_DATA
    /\ classifyingItems = <<>>

\* C34: handleReset is final for the uploads submitted before it: the catalogues keep
\* their default contents and classifyingItems stays empty until handleStyleUpload is
\* invoked again, a batch in flight at the reset notwithstanding.
C34_ResetIsFinalForSubmittedUploads ==
    [][(UploadsCleared /\ ~BatchAccepted) => UploadsCleared']_vars
\* -------------------------------------------------- claims about SpecVideo
\* handleGenerate is about to run in video mode with a photo and a non-blank prompt
StartsVideo ==
    /\ pc = "idle" /\ mode = "video" /\ selectedImage # NoImage
    /\ videoPrompt = "make it vintage"

GenerateVideoCalled(log) == \E i \in 1..Len(log) : log[i].fn = "generateVideos"

\* C15: in video mode with a non-blank prompt, when hasSelectedApiKey reports no
\* credential, handleGenerate opens the credential selection, issues no generateVideo
\* call, ends failed with the message telling the user to click Generate again, and
\* isApiKeySelected becomes true.
C15_NoCredentialOpensSelection ==
    /\ StartsVideo
       => handleGenerateStart.pc = "hasSelectedApiKey" /\ handleGenerateStart.calls = <<>>
    /\ (pc = "hasSelectedApiKey" /\ ~keySelected)
       => /\ hasSelectedApiKeyContinuation.pc = "openSelectKey"
          /\ ~GenerateVideoCalled(hasSelectedApiKeyContinuation.calls)
    /\ pc = "openSelectKey"
       => \A picked \in BOOLEAN :
              /\ openSelectKeyContinuation(picked).pc = "idle"
              /\ ~openSelectKeyContinuation(picked).isLoading
              /\ openSelectKeyContinuation(picked).error = MsgKeySelected
              /\ openSelectKeyContinuation(picked).isApiKeySelected
              /\ openSelectKeyContinuation(picked).generatedVideoUrl = Null
              /\ ~GenerateVideoCalled(calls)

C15_Witness ==
    /\ pc = "idle" /\ mode = "video" /\ jobs = 1
    /\ error = MsgKeySelected
    /\ isApiKeySelected
    /\ generatedVideoUrl = Null

\* raw errors by the rule of parseGeminiError they fall under
CredentialRaw == ErrorOf(<<Fragment("requested entity was not found", TRUE)>>)

QuotaRaw == ErrorOf(<<Fragment("other text", TRUE), Fragment("quota", FALSE)>>)

\* handleGenerate's state after generateVideo failed at the call in flight, given the
\* response that made it fail
FailedOperation(response) == operationContinuation(response)

\* the failure leaves the flag as it is and surfaces one of the other five messages
FlagKept(r) ==
    /\ r.pc = "idle"
    /\ r.isApiKeySelected = isApiKeySelected
    /\ r.error \in NormalizedMessages \ {MsgCredential}

\* C16: when generateVideo fails with an error normalized to the credential category
\* (raw message containing 'requested entity was not found'), handleGenerate sets
\* isApiKeySelected to false and surfaces the error; a failure of any other category
\* leaves isApiKeySelected unchanged.
C16_CredentialFailureClearsFlag ==
    /\ pc \in {"generateVideos", "getVideosOperation"}
       => /\ FailedOperation(OperationRejected(CredentialRaw)).pc = "idle"
          /\ ~FailedOperation(OperationRejected(CredentialRaw)).isApiKeySelected
          /\ FailedOperation(OperationRejected(CredentialRaw)).error = MsgCredential
          /\ FlagKept(FailedOperation(OperationRejected(QuotaRaw)))
          /\ FlagKept(FailedOperation(Operation(TRUE, FALSE)))
    /\ pc = "fetch"
       => \A response \in FetchResponses :
              fetchContinuation(response).pc = "idle" => FlagKept(fetchContinuation(response))
    /\ pc = "blob" => FlagKept(blobContinuation(FALSE))

C16_Witness ==
    /\ pc = "idle" /\ mode = "video" /\ ~checkKeyPending /\ keySelected
    /\ thrown.message = MsgCredential /\ error = MsgCredential
    /\ ~isApiKeySelected

\* the flag is false although checkKey has resolved since video mode was entered: while
\* a key is selected only the catch of a credential failure leaves it so
FlagFlippedBack == ~isApiKeySelected /\ ~checkKeyPending

\* C17: after a video attempt failed with the credential error and the flag was flipped
\* back to false, the next attempt opens the credential selection instead of issuing a
\* video generation call.
C17_FlippedFlagReopensSelection ==
    (pc = "hasSelectedApiKey" /\ FlagFlippedBack)
    => /\ hasSelectedApiKeyContinuation.pc = "openSelectKey"
       /\ ~GenerateVideoCalled(hasSelectedApiKeyContinuation.calls)

\* handleGenerate's state after a poll reported the operation done without a download uri
AfterDoneWithoutLink == operationContinuation(Operation(TRUE, FALSE))

\* C19: when a poll reports the operation done but the response carries no download
\* reference, generateVideo fails without attempting a download, no video URL is set, and
\* the error shown says that generation completed but produced no output.
C19_NoLinkIsReportedAsNoOutput ==
    pc = "getVideosOperation"
    => /\ AfterDoneWithoutLink.pc = "idle"
       /\ \A i \in 1..Len(calls) : calls[i].fn # "fetch"
       /\ AfterDoneWithoutLink.generatedVideoUrl = Null
       /\ AfterDoneWithoutLink.error = MsgNoLink


Polling == pc \in {"generateVideos", "getVideosOperation"}

\* C30: while generateVideo waits for the operation, no download has been attempted;
\* an answer that is not done, after however many polls, makes it poll once more and
\* neither ends nor fails the job; the download starts only on an answer that is done.
C30_PollerGoesOnUntilDone ==
    Polling =>
        /\ \A k \in 1..Len(calls) : calls[k].fn # "fetch"
        /\ LET after == operationContinuation(Operation(FALSE, FALSE)) IN
            /\ after.pc = "getVideosOperation"
            /\ after.calls = Append(calls, Call("getVideosOperation", job.polls + 1))
            /\ after.isLoading /\ after.error = Null /\ after.generatedVideoUrl = Null
            /\ after.thrown = NoThrow
        /\ \A response \in OperationResponses :
            operationContinuation(response).pc = "fetch" =>
                response.kind = "resolved" /\ response.done

C30_Witness ==
    /\ pc = "getVideosOperation"
    /\ job.polls = MaxPolls
    /\ Len(calls) = MaxPolls + 1
    /\ isLoading /\ error = Null
\* ---------------------------------------------------- claims about SpecAll
\* the step ends a job: its last await resumes and the handler runs to its end
JobEnds == pc # "idle" /\ pc' = "idle"

\* handleGenerate, invoked now, would end without awaiting anything
EndsAtOnce == pc = "idle" /\ handleGenerateStart.pc = "idle"

\* C18 (as claimed): every handleGenerate invocation, in each of the three modes, leaves
\* elapsedTime non-null when it completes, be it in success, validation failure or
\* service failure.
C18_EveryInvocationRecordsElapsedTime ==
    /\ [](EndsAtOnce => handleGenerateStart.elapsedTime # Null)
    /\ [][JobEnds => elapsedTime' # Null]_vars

\* C18 (amended): every handleGenerate invocation made with a photo selected leaves
\* elapsedTime non-null and isLoading false when it completes, be it in success,
\* validation failure or service failure.
C18_InvocationWithPhotoRecordsElapsedTime ==
    /\ []((EndsAtOnce /\ selectedImage # NoImage)
            => (handleGenerateStart.elapsedTime # Null /\ ~handleGenerateStart.isLoading))
    /\ [][JobEnds => (elapsedTime' # Null /\ ~isLoading')]_vars

C18_Witness ==
    /\ pc = "idle" /\ mode = "video" /\ selectedImage # NoImage
    /\ error = MsgNoVideoPrompt
    /\ elapsedTime # Null /\ ~isLoading


\* C31: a job that handleGenerate started ends, with isLoading false, whichever way it
\* goes, given that every awaited call settles and the operation is done after finitely
\* many polls; and isLoading is true only while a job is in flight.
C31_EveryJobEndsWithLoadingReset ==
    /\ [](isLoading => pc # "idle")
    /\ (pc # "idle") ~> (pc = "idle" /\ ~isLoading)

C31_Witness ==
    /\ pc = "idle" /\ ~isLoading
    /\ thrown # NoThrow
    /\ mode = "video"

\* ================================================= claims about SpecParse
\* the rules in the order the claim lists them, each with its patterns and category
RulePatterns(n) ==
    CASE n = 1 -> {"api key not valid"}
      [] n = 2 -> {"requested entity was not found"}
      [] n = 3 -> {"quota"}
      [] n = 4 -> {"503", "unavailable"}
      [] n = 5 -> {"invalid argument", "request was blocked"}
      [] OTHER -> {}

RuleCategory(n) ==
    CASE n = 1 -> MsgConfiguration
      [] n = 2 -> MsgCredential
      [] n = 3 -> MsgQuota
      [] n = 4 -> MsgUnavailable
      [] n = 5 -> MsgBlocked
      [] OTHER -> MsgUnknown

\* the message holds the pattern, in whatever case it is written
Contains(raw, pattern) ==
    raw.isError /\ \E i \in 1..Len(raw.message) : raw.message[i].phrase = pattern

RuleMatches(raw, n) == n = 6 \/ \E pattern \in RulePatterns(n) : Contains(raw, pattern)

LowestMatchingRule(raw) ==
    CHOOSE n \in 1..6 : RuleMatches(raw, n) /\ \A k \in 1..(n - 1) : ~RuleMatches(raw, k)

\* C20: whatever patterns a thrown value's message contains, parseGeminiError returns
\* the category of the lowest-numbered rule that matches, the fallback when none does;
\* a message with both "quota" and "503" is reported as the quota category.
C20_FirstMatchingRuleWins ==
    /\ parseResult # Null => parseResult = RuleCategory(LowestMatchingRule(parseInput))
    /\ (Contains(parseInput, "quota") /\ Contains(parseInput, "503")
          /\ ~Contains(parseInput, "api key not valid")
          /\ ~Contains(parseInput, "requested entity was not found"))
         => parseGeminiError(parseInput) = MsgQuota

C20_Witness ==
    /\ parseResult = MsgQuota
    /\ Contains(parseInput, "quota") /\ Contains(parseInput, "503")
    /\ Contains(parseInput, "request was blocked")

\* the same message with its fragments written in the letter cases `casing` gives
Recased(raw, casing) ==
    IF raw.isError
    THEN ErrorOf([i \in 1..Len(raw.message) |-> Fragment(raw.message[i].phrase, casing[i])])
    ELSE raw

Casings(raw) == [1..Len(raw.message) -> BOOLEAN]

\* "Error: Requested entity was not found"
RequestedEntityCapitalized ==
    ErrorOf(<<Fragment("other text", TRUE), Fragment("requested entity was not found", TRUE)>>)

\* C21: the letter case of a message does not change its category: however the fragments
\* of the message are capitalized the result is the same, and "Error: Requested entity
\* was not found" is reported as the credential category, not the unknown one.
C21_LetterCaseDoesNotMatter ==
    /\ parseResult # Null =>
         \A casing \in Casings(parseInput) :
             parseGeminiError(Recased(parseInput, casing)) = parseResult
    /\ parseInput = RequestedEntityCapitalized =>
         parseGeminiError(parseInput) = MsgCredential

C21_Witness ==
    /\ parseInput = RequestedEntityCapitalized
    /\ parseResult = MsgCredential
====
